---- MODULE Spec2Model ----
(***************************************************************************)
(* A model of the JSON -> SQL Server tag import tool:                      *)
(*   json_reader.py  extract_tags: flattens channels/devices/tags to rows  *)
(*   db_handler.py   connect, create_database, create_table, insert_rows,  *)
(*                   verify_data                                           *)
(*   main.py         main: the orchestration of the four phases            *)
(* Python values that come out of json.load are tagged records; the SQL    *)
(* server is the set of its databases and the committed contents of the    *)
(* tags table, and each connection has its own uncommitted view.           *)
(***************************************************************************)
EXTENDS Integers, Sequences, FiniteSets, TLC

VARIABLES
    doc,        \* the value json.load returned (main.py: data)
    result,     \* outcome of extract_tags(doc): [exc, rows]
    pc,         \* position of the program
    rows,       \* main.py: rows / insert_rows: rows
    conn,       \* main.py: conn, a handle (index into conns), 0 before connect
    conns,      \* every connection handle pyodbc.connect returned so far
    databases,  \* sys.databases of the server
    committed,  \* the tags table as committed in the target database
    work,       \* the tags table as the open connection sees it (uncommitted)
    log,        \* the calls made so far, in order
    exitcode,   \* exit status of the process, -1 while it runs
    idx,        \* insert_rows: i
    total       \* verify_data: total, -1 before it ran

vars == <<doc, result, pc, rows, conn, conns, databases, committed, work, log,
          exitcode, idx, total>>

(***************************************************************************)
(* Bounds of the model.                                                    *)
(***************************************************************************)
\* most nodes (channels + devices + tags) of a document given to extract_tags
MaxNodes == 6
\* most nodes of the document a whole run of main is given
MainNodes == 3
\* most rows given to insert_rows
MaxRows == 2500
\* most rows the tags table holds from an earlier run
MaxPrior == 2
\* most calls of create_database in a row
MaxCalls == 2

(***************************************************************************)
(* Python values as json.load builds them.                                 *)
(***************************************************************************)
Null == [t |-> "null"]
Num(n) == [t |-> "num", n |-> n]
Str(s) == [t |-> "str", s |-> s]
List(xs) == [t |-> "seq", items |-> xs]
\* a dict keeps its keys in insertion order: a sequence of <<key, value>>
Dict(kv) == [t |-> "map", kv |-> kv]

EmptyStr == Str(<<>>)

K_PROJECT == "project"
K_CHANNELS == "channels"
K_DEVICES == "devices"
K_TAGS == "tags"
K_NAME == "common.ALLTYPES_NAME"
K_DEVID == "servermain.DEVICE_ID_STRING"
K_ADDR == "servermain.TAG_ADDRESS"
K_DTYPE == "servermain.TAG_DATA_TYPE"
K_RATE == "servermain.TAG_SCAN_RATE_MILLISECONDS"

HasKey(d, k) == \E i \in 1..Len(d.kv) : d.kv[i][1] = k
Lookup(d, k) == d.kv[CHOOSE i \in 1..Len(d.kv) : d.kv[i][1] = k][2]

\* dict.get(k, default) on a dict
Get(d, k, default) == IF HasKey(d, k) THEN Lookup(d, k) ELSE default

\* only a dict has .get: anything else raises AttributeError
HasGet(x) == x.t = "map"

\* len(x) and `for e in x` are defined for list, str and dict; None and a
\* number raise TypeError
Iterable(x) == x.t \in {"seq", "str", "map"}

\* the elements `for e in x` yields: the items of a list, the characters of
\* a str, the keys of a dict (each key is yielded as a str)
Iter(x) ==
    CASE x.t = "seq" -> x.items
      [] x.t = "str" -> [i \in 1..Len(x.s) |-> Str(<<x.s[i]>>)]
      [] x.t = "map" -> [i \in 1..Len(x.kv) |-> Str(<<x.kv[i][1]>>)]

Return(rs) == [exc |-> "none", rows |-> rs]
Raise(e) == [exc |-> e, rows |-> <<>>]
NoResult == [exc |-> "pending", rows |-> <<>>]

(***************************************************************************)
(* json_reader.py: extract_tags.                                           *)
(***************************************************************************)
\* lines 87-95: the row of one tag
TagRowSwapped(channel_name, device_name, device_id_string, tag) ==
    <<device_name, channel_name, device_id_string,
      Get(tag, K_NAME, Null), Get(tag, K_ADDR, Null),
      Get(tag, K_DTYPE, Null), Get(tag, K_RATE, Null)>>

TagRowAddressDefault(channel_name, device_name, device_id_string, tag) ==
    <<channel_name, device_name, device_id_string,
      Get(tag, K_NAME, Null), Get(tag, K_ADDR, EmptyStr),
      Get(tag, K_DTYPE, Null), Get(tag, K_RATE, Null)>>

TagRow(channel_name, device_name, device_id_string, tag) ==
    <<channel_name, device_name, device_id_string,
      Get(tag, K_NAME, Null), Get(tag, K_ADDR, Null),
      Get(tag, K_DTYPE, Null), Get(tag, K_RATE, Null)>>

\* lines 86-95: for tag in device.get("tags", [])
RECURSIVE TagLoop(_, _, _, _, _)
TagLoop(tags, channel_name, device_name, device_id_string, acc) ==
    IF tags = <<>> THEN Return(acc)
    ELSE LET tag == Head(tags) IN
         IF ~HasGet(tag) THEN Raise("AttributeError")
         ELSE TagLoop(Tail(tags), channel_name, device_name, device_id_string,
                      Append(acc, TagRow(channel_name, device_name,
                                         device_id_string, tag)))

\* lines 83-84: the device's fields, absent keys default to ""
DeviceFields(device) ==
    <<Get(device, K_NAME, EmptyStr), Get(device, K_DEVID, EmptyStr)>>

\* lines 82-95: for device in channel.get("devices", [])
RECURSIVE DeviceLoop(_, _, _)
DeviceLoop(devices, channel_name, acc) ==
    IF devices = <<>> THEN Return(acc)
    ELSE LET device == Head(devices) IN
         IF ~HasGet(device) THEN Raise("AttributeError")
         ELSE LET f == DeviceFields(device)
                  tags == Get(device, K_TAGS, List(<<>>))
              IN IF ~Iterable(tags) THEN Raise("TypeError")
                 ELSE LET r == TagLoop(Iter(tags), channel_name, f[1], f[2], acc)
                      IN IF r.exc # "none" THEN r
                         ELSE DeviceLoop(Tail(devices), channel_name, r.rows)

\* line 80: channel_name = channel.get("common.ALLTYPES_NAME", "")
ChannelName(channel) == Get(channel, K_NAME, EmptyStr)

\* lines 79-95: for channel in channels
RECURSIVE ChannelLoopStops(_, _)
ChannelLoopStops(channels, acc) ==
    IF channels = <<>> THEN Return(acc)
    ELSE LET channel == Head(channels) IN
         IF ~HasGet(channel) THEN Raise("AttributeError")
         ELSE LET channel_name == ChannelName(channel)
                  devices == Get(channel, K_DEVICES, List(<<>>))
              IN IF ~Iterable(devices) THEN Raise("TypeError")
                 ELSE IF Iter(devices) = <<>> THEN Return(acc)
                 ELSE LET r == DeviceLoop(Iter(devices), channel_name, acc)
                      IN IF r.exc # "none" THEN r
                         ELSE ChannelLoopStops(Tail(channels), r.rows)

RECURSIVE ChannelLoop(_, _)
ChannelLoop(channels, acc) ==
    IF channels = <<>> THEN Return(acc)
    ELSE LET channel == Head(channels) IN
         IF ~HasGet(channel) THEN Raise("AttributeError")
         ELSE LET channel_name == ChannelName(channel)
                  devices == Get(channel, K_DEVICES, List(<<>>))
              IN IF ~Iterable(devices) THEN Raise("TypeError")
                 ELSE LET r == DeviceLoop(Iter(devices), channel_name, acc)
                      IN IF r.exc # "none" THEN r
                         ELSE ChannelLoop(Tail(channels), r.rows)

\* lines 74-98
extract_tags(data) ==
    IF ~HasGet(data) THEN Raise("AttributeError")
    ELSE LET project == Get(data, K_PROJECT, Dict(<<>>)) IN
         IF ~HasGet(project) THEN Raise("AttributeError")
         ELSE LET channels == Get(project, K_CHANNELS, List(<<>>)) IN
              \* line 77: len(channels)
              IF ~Iterable(channels) THEN Raise("TypeError")
              ELSE ChannelLoop(Iter(channels), <<>>)

(***************************************************************************)
(* The documents the model feeds to extract_tags.  A shape gives, for each *)
(* channel, whether it has a "devices" key and, for each device, the       *)
(* number of its tags (-1: no "tags" key).  A document is built from a     *)
(* shape, a set of scalar keys left out everywhere, and at most one place  *)
(* where the value is of an unexpected type.                               *)
(***************************************************************************)
Max(a, b) == IF a >= b THEN a ELSE b

\* sequences of devices (tag counts) of at most n nodes in all
RECURSIVE DevSeqs(_)
DevSeqs(n) ==
    IF n <= 0 THEN {<<>>}
    ELSE {<<>>} \cup
         UNION {{<<tg>> \o r : r \in DevSeqs(n - 1 - Max(tg, 0))} : tg \in -1..(n - 1)}

RECURSIVE SumTags(_)
SumTags(devs) ==
    IF devs = <<>> THEN 0 ELSE 1 + Max(Head(devs), 0) + SumTags(Tail(devs))

ChanSize(ch) == 1 + SumTags(ch.devs)

ChanShapes(n) ==
    {[present |-> FALSE, devs |-> <<>>]} \cup
    {[present |-> TRUE, devs |-> ds] : ds \in DevSeqs(n - 1)}

RECURSIVE ChanSeqs(_)
ChanSeqs(n) ==
    IF n <= 0 THEN {<<>>}
    ELSE {<<>>} \cup
         UNION {{<<ch>> \o r : r \in ChanSeqs(n - ChanSize(ch))} : ch \in ChanShapes(n)}

\* top: "noproject" (no "project" key), "nochannels" (no "channels" key) or
\* "channels"
Shapes(n) ==
    {[top |-> "noproject", chans |-> <<>>], [top |-> "nochannels", chans |-> <<>>]}
    \cup {[top |-> "channels", chans |-> cs] : cs \in ChanSeqs(n)}

Fields == {"channel_name", "device_name", "device_id_string", "tag_name",
           "address", "data_type", "scan_rate"}

\* the sets of scalar keys a document leaves out: none, one, or all seven
AbsentSets == {{}} \cup {{f} : f \in Fields} \cup {Fields}

NoDefect == [level |-> "none", ci |-> 0, di |-> 0, ti |-> 0, val |-> Null]

\* values that are not a mapping / not a sequence
NonMappings == {Null, Num(5), EmptyStr, Str(<<"a", "b">>), List(<<>>),
                List(<<Null>>)}
NonSequences == {Null, Num(5), EmptyStr, Str(<<"a", "b">>), Dict(<<>>),
                 Dict(<< <<"k", Null>> >>)}

Defects(sh) ==
    LET C == 1..Len(sh.chans)
        D(i) == 1..Len(sh.chans[i].devs)
        T(i, j) == 1..Max(sh.chans[i].devs[j], 0)
        At(l, i, j, k, V) == {[level |-> l, ci |-> i, di |-> j, ti |-> k, val |-> v] : v \in V}
    IN  At("root", 0, 0, 0, NonMappings) \cup At("project", 0, 0, 0, NonMappings)
        \cup At("channels", 0, 0, 0, NonSequences)
        \cup UNION {At("channel", i, 0, 0, NonMappings) \cup At("devices", i, 0, 0, NonSequences)
                    : i \in C}
        \cup UNION {UNION {At("device", i, j, 0, NonMappings) \cup At("tags", i, j, 0, NonSequences)
                           : j \in D(i)} : i \in C}
        \cup UNION {UNION {UNION {At("tag", i, j, k, NonMappings) : k \in T(i, j)}
                           : j \in D(i)} : i \in C}

Digit(i) == <<"0", "1", "2", "3", "4", "5", "6", "7", "8", "9">>[i + 1]

Opt(cond, k, v) == IF cond THEN << <<k, v>> >> ELSE <<>>

Hit(df, l, i, j, k) == df.level = l /\ df.ci = i /\ df.di = j /\ df.ti = k

BuildTag(i, j, k, ab, df) ==
    IF Hit(df, "tag", i, j, k) THEN df.val
    ELSE Dict(Opt("tag_name" \notin ab, K_NAME, Str(<<"T", Digit(i), Digit(j), Digit(k)>>))
              \o Opt("address" \notin ab, K_ADDR, Str(<<"4", Digit(k)>>))
              \o Opt("data_type" \notin ab, K_DTYPE, Num(8))
              \o Opt("scan_rate" \notin ab, K_RATE, Num(100 * k)))

BuildDevice(i, j, tg, ab, df) ==
    IF Hit(df, "device", i, j, 0) THEN df.val
    ELSE Dict(Opt("device_name" \notin ab, K_NAME, Str(<<"D", Digit(i), Digit(j)>>))
              \o Opt("device_id_string" \notin ab, K_DEVID, Str(<<"I", Digit(i), Digit(j)>>))
              \o (IF Hit(df, "tags", i, j, 0) THEN << <<K_TAGS, df.val>> >>
                  ELSE Opt(tg >= 0, K_TAGS,
                           List([k \in 1..Max(tg, 0) |-> BuildTag(i, j, k, ab, df)]))))

BuildChannel(i, ch, ab, df) ==
    IF Hit(df, "channel", i, 0, 0) THEN df.val
    ELSE Dict(Opt("channel_name" \notin ab, K_NAME, Str(<<"C", Digit(i)>>))
              \o (IF Hit(df, "devices", i, 0, 0) THEN << <<K_DEVICES, df.val>> >>
                  ELSE Opt(ch.present, K_DEVICES,
                           List([j \in 1..Len(ch.devs) |->
                                    BuildDevice(i, j, ch.devs[j], ab, df)]))))

BuildDoc(sh, ab, df) ==
    IF Hit(df, "root", 0, 0, 0) THEN df.val
    ELSE IF Hit(df, "project", 0, 0, 0) THEN Dict(<< <<K_PROJECT, df.val>> >>)
    ELSE IF sh.top = "noproject" THEN Dict(<< <<"other", Null>> >>)
    ELSE Dict(<< <<K_PROJECT,
            Dict(IF Hit(df, "channels", 0, 0, 0) THEN << <<K_CHANNELS, df.val>> >>
                 ELSE Opt(sh.top = "channels", K_CHANNELS,
                          List([i \in 1..Len(sh.chans) |->
                                   BuildChannel(i, sh.chans[i], ab, df)])))>> >>)

\* what is done to a shape: keys left out, or one value of the wrong type
Decorations(sh) ==
    {[ab |-> ab, df |-> NoDefect] : ab \in AbsentSets}
    \cup {[ab |-> {}, df |-> df] : df \in Defects(sh)}

\* doc is one of the documents of at most n nodes
IsDocOfSize(n) ==
    \E sh \in Shapes(n) : \E d \in Decorations(sh) : doc = BuildDoc(sh, d.ab, d.df)

(***************************************************************************)
(* The state before the program has done anything.                         *)
(***************************************************************************)
NoTable == [exists |-> FALSE, rows |-> <<>>]

Idle ==
    /\ result = NoResult
    /\ rows = <<>>
    /\ conn = 0
    /\ conns = <<>>
    /\ databases = {"master"}
    /\ committed = NoTable
    /\ work = NoTable
    /\ log = <<>>
    /\ exitcode = -1
    /\ idx = 0
    /\ total = -1

\* main.py line 42: rows = extract_tags(data); an exception it raises is
\* caught nowhere
Extract ==
    /\ pc = "extract"
    /\ result' = extract_tags(doc)
    /\ rows' = result'.rows
    /\ pc' = IF result'.exc = "none" THEN "check_empty" ELSE "raised"
    /\ UNCHANGED <<doc, conn, conns, databases, committed, work, log, exitcode, idx, total>>

\* extract_tags applied to every document of the bound
InitExtract == IsDocOfSize(MaxNodes) /\ pc = "extract" /\ Idle
NextExtract == Extract
SpecExtract == InitExtract /\ [][NextExtract]_vars

(***************************************************************************)
(* The SQL server.                                                         *)
(***************************************************************************)
\* main.py line 25
DATABASE == "ase_config"

\* db_handler.py line 151
batch_size == 1000

Min(a, b) == IF a <= b THEN a ELSE b

\* one entry of the log: the call op on handle h, with a count and a name
Ev(op, h, n, name) == [op |-> op, h |-> h, n |-> n, name |-> name]

\* CREATE DATABASE [name]: a database of that name is an error
SqlCreateDatabase(dbs, name) ==
    IF name \in dbs THEN [err |-> TRUE, dbs |-> dbs]
    ELSE [err |-> FALSE, dbs |-> dbs \cup {name}]

SqlCreateUnguarded(dbs, name) == SqlCreateDatabase(dbs, name)

\* db_handler.py lines 77-82: IF NOT EXISTS (...) BEGIN CREATE DATABASE END
SqlIfNotExistsCreate(dbs, name) ==
    IF name \notin dbs THEN SqlCreateDatabase(dbs, name)
    ELSE [err |-> FALSE, dbs |-> dbs]

\* conn.commit(): what the connection sees becomes what is committed
CommitNothing(c, w) == c

Commit(c, w) == w

\* DELETE FROM tags
DeleteNothing(w) == w

DeleteAll(w) == [w EXCEPT !.rows = <<>>]

\* db_handler.py line 155: batch = rows[i:i + batch_size]
BatchToEnd(rs, i) == SubSeq(rs, i + 1, Len(rs))

Batch(rs, i) == SubSeq(rs, i + 1, Min(i + batch_size, Len(rs)))

\* how many rows of a batch executemany has inserted when it stops: all of
\* them, or fewer when a row fails
InsertedCounts(batch) == {0, Len(batch) - 1, Len(batch)}

(***************************************************************************)
(* db_handler.py, each function with the position the caller goes on at.  *)
(***************************************************************************)
\* lines 21-57: connect; a pyodbc.Error ends the process by sys.exit(1)
connect(database, fault, next) ==
    IF fault \/ database \notin databases
    THEN /\ pc' = "exited"
         /\ exitcode' = 1
         /\ log' = Append(log, Ev("connect_failed", 0, 0, database))
         /\ work' = committed
         /\ UNCHANGED <<conn, conns>>
    ELSE /\ conns' = Append(conns, [db |-> database, closed |-> FALSE, autocommit |-> FALSE])
         /\ conn' = Len(conns) + 1
         /\ work' = committed
         /\ log' = Append(log, Ev("connect", Len(conns) + 1, 0, database))
         /\ pc' = next
         /\ UNCHANGED exitcode

\* lines 60-86: create_database(conn, db_name), which closes conn at its end
create_database_keeps_open(h, db_name, fault, next) ==
    LET r == SqlIfNotExistsCreate(databases, db_name) IN
    IF conns[h].closed \/ fault \/ r.err
    THEN /\ pc' = "raised"
         /\ log' = Append(log, Ev("create_database_failed", h, 0, db_name))
         /\ UNCHANGED <<conns, databases>>
    ELSE /\ databases' = r.dbs
         /\ conns' = [conns EXCEPT ![h].autocommit = TRUE]
         /\ log' = Append(log, Ev("create_database", h,
                                  IF db_name \in databases THEN 0 ELSE 1, db_name))
         /\ pc' = next

create_database(h, db_name, fault, next) ==
    LET r == SqlIfNotExistsCreate(databases, db_name) IN
    IF conns[h].closed
    THEN \* line 74: a closed connection raises pyodbc.ProgrammingError
         /\ pc' = "raised"
         /\ log' = Append(log, Ev("create_database_failed", h, 0, db_name))
         /\ UNCHANGED <<conns, databases>>
    ELSE IF fault \/ r.err
    THEN \* line 77: execute raises, lines 85-86 are not reached
         /\ pc' = "raised"
         /\ conns' = [conns EXCEPT ![h].autocommit = TRUE]
         /\ log' = Append(log, Ev("create_database_failed", h, 0, db_name))
         /\ UNCHANGED databases
    ELSE /\ databases' = r.dbs
         /\ conns' = [conns EXCEPT ![h].autocommit = TRUE, ![h].closed = TRUE]
         /\ log' = log \o <<Ev("create_database", h,
                               IF db_name \in databases THEN 0 ELSE 1, db_name),
                            Ev("close", h, 0, "")>>
         /\ pc' = next

\* lines 89-120: create_table(conn): drop, create, commit
create_table(h, fault, next) ==
    IF fault = "drop"
    THEN /\ pc' = "raised"
         /\ log' = log \o <<Ev("create_table", h, 0, ""), Ev("execute_failed", h, 0, "drop")>>
         /\ UNCHANGED <<work, committed>>
    ELSE IF fault = "create"
    THEN /\ pc' = "raised"
         /\ work' = NoTable
         /\ log' = log \o <<Ev("create_table", h, 0, ""), Ev("execute_failed", h, 0, "create")>>
         /\ UNCHANGED committed
    ELSE /\ work' = [exists |-> TRUE, rows |-> <<>>]
         /\ committed' = Commit(committed, work')
         /\ log' = log \o <<Ev("create_table", h, 0, ""), Ev("commit", h, 0, "")>>
         /\ pc' = next

\* lines 138-143: cursor, DELETE FROM tags, commit
insert_rows_delete(h, fault) ==
    IF fault \/ ~work.exists
    THEN /\ pc' = "raised"
         /\ log' = log \o <<Ev("insert_rows", h, Len(rows), ""), Ev("execute_failed", h, 0, "delete")>>
         /\ UNCHANGED <<work, committed, idx>>
    ELSE /\ work' = DeleteAll(work)
         /\ committed' = Commit(committed, work')
         /\ log' = log \o <<Ev("insert_rows", h, Len(rows), ""),
                            Ev("delete", h, Len(work.rows), ""), Ev("commit", h, 0, "")>>
         /\ idx' = 0
         /\ pc' = "ins_loop"

\* lines 154-159: one turn of the loop over range(0, total, batch_size);
\* executemany inserts n rows of the batch and raises unless n is all of it
insert_rows_batch(h, n) ==
    LET batch == Batch(rows, idx) IN
    IF n < Len(batch)
    THEN /\ work' = [work EXCEPT !.rows = @ \o SubSeq(batch, 1, n)]
         /\ pc' = "raised"
         /\ log' = Append(log, Ev("executemany_failed", h, (idx \div batch_size) + 1, ""))
         /\ UNCHANGED <<committed, idx>>
    ELSE /\ work' = [work EXCEPT !.rows = @ \o batch]
         /\ committed' = Commit(committed, work')
         /\ log' = Append(log, Ev("commit", h, Len(batch), ""))
         /\ idx' = idx + batch_size
         /\ pc' = "ins_loop"

\* lines 161-162: the loop is over, cursor.close()
insert_rows_return(h, next) ==
    /\ log' = Append(log, Ev("insert_rows_done", h, Len(rows), ""))
    /\ pc' = next

\* lines 165-205: verify_data(conn); total is SELECT COUNT(*) FROM tags
verify_data(h, fault, next) ==
    IF fault \/ ~work.exists
    THEN /\ pc' = "raised"
         /\ log' = log \o <<Ev("verify_data", h, 0, ""), Ev("execute_failed", h, 0, "select")>>
         /\ UNCHANGED total
    ELSE /\ total' = Len(work.rows)
         /\ log' = Append(log, Ev("verify_data", h, Len(work.rows), ""))
         /\ pc' = next

(***************************************************************************)
(* main.py: main, one action per statement.                                *)
(***************************************************************************)
\* line 41: read_json_file: a missing file is sys.exit(1) (json_reader.py
\* lines 35-37), text that is not JSON makes json.load raise
ReadJson ==
    /\ pc = "start"
    /\ \E outcome \in {"ok", "missing", "invalid"} :
          /\ pc' = CASE outcome = "ok" -> "extract"
                     [] outcome = "missing" -> "exited"
                     [] outcome = "invalid" -> "raised"
          /\ exitcode' = IF outcome = "missing" THEN 1 ELSE exitcode
    /\ UNCHANGED <<doc, result, rows, conn, conns, databases, committed, work, log, idx, total>>

\* line 44: len(rows) == 0
NoRowsNever(rs) == FALSE

NoRows(rs) == Len(rs) = 0

\* lines 44-46: nothing to insert is sys.exit(0)
CheckEmpty ==
    /\ pc = "check_empty"
    /\ pc' = IF NoRows(rows) THEN "exited" ELSE "connect_master"
    /\ exitcode' = IF NoRows(rows) THEN 0 ELSE exitcode
    /\ UNCHANGED <<doc, result, rows, conn, conns, databases, committed, work, log, idx, total>>

\* line 52
ConnectMaster ==
    /\ pc = "connect_master"
    /\ \E fault \in BOOLEAN : connect("master", fault, "create_database")
    /\ UNCHANGED <<doc, result, rows, databases, committed, idx, total>>

\* line 53
CreateDatabase ==
    /\ pc = "create_database"
    /\ \E fault \in BOOLEAN : create_database(conn, DATABASE, fault, "connect_target")
    /\ UNCHANGED <<doc, result, rows, conn, committed, work, exitcode, idx, total>>

\* line 55
ConnectTarget ==
    /\ pc = "connect_target"
    /\ \E fault \in BOOLEAN : connect(DATABASE, fault, "create_table")
    /\ UNCHANGED <<doc, result, rows, databases, committed, idx, total>>

\* line 56
CreateTable ==
    /\ pc = "create_table"
    /\ \E fault \in {"none", "drop", "create"} : create_table(conn, fault, "insert_rows")
    /\ UNCHANGED <<doc, result, rows, conn, conns, databases, exitcode, idx, total>>

\* line 62, the start of insert_rows
InsertDelete ==
    /\ pc = "insert_rows"
    /\ \E fault \in BOOLEAN : insert_rows_delete(conn, fault)
    /\ UNCHANGED <<doc, result, rows, conn, conns, databases, exitcode, total>>

\* line 62, a turn of the loop of insert_rows
InsertBatch ==
    /\ pc = "ins_loop"
    /\ idx < Len(rows)
    /\ \E n \in InsertedCounts(Batch(rows, idx)) : insert_rows_batch(conn, n)
    /\ UNCHANGED <<doc, result, rows, conn, conns, databases, exitcode, total>>

\* line 62, the end of insert_rows
InsertReturn ==
    /\ pc = "ins_loop"
    /\ idx >= Len(rows)
    /\ insert_rows_return(conn, "verify_data")
    /\ UNCHANGED <<doc, result, rows, conn, conns, databases, committed, work, exitcode, idx, total>>

\* line 68
VerifyData ==
    /\ pc = "verify_data"
    /\ \E fault \in BOOLEAN : verify_data(conn, fault, "close")
    /\ UNCHANGED <<doc, result, rows, conn, conns, databases, committed, work, exitcode, idx>>

\* lines 71-74: conn.close() and the end of main
Close ==
    /\ pc = "close"
    /\ conns' = [conns EXCEPT ![conn].closed = TRUE]
    /\ log' = Append(log, Ev("close", conn, 0, ""))
    /\ pc' = "exited"
    /\ exitcode' = 0
    /\ UNCHANGED <<doc, result, rows, conn, databases, committed, work, idx, total>>

\* an exception nothing catches ends the process with status 1; the server
\* rolls back what its connections had not committed
Terminate ==
    /\ pc = "raised"
    /\ pc' = "exited"
    /\ exitcode' = 1
    /\ work' = committed
    /\ UNCHANGED <<doc, result, rows, conn, conns, databases, committed, log, idx, total>>

(***************************************************************************)
(* A run of main.                                                          *)
(***************************************************************************)
\* a row an earlier run left in the table
OldRow == <<Str(<<"C", "0">>), Str(<<"D", "0">>), Str(<<"I", "0">>), Str(<<"T", "0">>),
            Str(<<"4", "0">>), Num(8), Num(100)>>

\* the server before the run: without the target database, with it and no
\* tags table, or with the table an earlier run filled
ServerStates ==
    {[dbs |-> {"master"}, table |-> NoTable],
     [dbs |-> {"master", DATABASE}, table |-> NoTable]}
    \cup {[dbs |-> {"master", DATABASE},
           table |-> [exists |-> TRUE, rows |-> [i \in 1..n |-> OldRow]]] : n \in 0..MaxPrior}

Init ==
    /\ IsDocOfSize(MainNodes)
    /\ pc = "start"
    /\ result = NoResult
    /\ rows = <<>>
    /\ conn = 0
    /\ conns = <<>>
    /\ \E sv \in ServerStates : databases = sv.dbs /\ committed = sv.table
    /\ work = committed
    /\ log = <<>>
    /\ exitcode = -1
    /\ idx = 0
    /\ total = -1

Next ==
    \/ ReadJson \/ Extract \/ CheckEmpty \/ ConnectMaster \/ CreateDatabase
    \/ ConnectTarget \/ CreateTable \/ InsertDelete \/ InsertBatch \/ InsertReturn
    \/ VerifyData \/ Close \/ Terminate

Spec == Init /\ [][Next]_vars

(***************************************************************************)
(* insert_rows and then verify_data on an open connection to the target    *)
(* database, for row counts around the batch size and any earlier content  *)
(* of the table.  A row is its place in the list.                          *)
(***************************************************************************)
LoadSizes ==
    {n \in 0..MaxRows : n % batch_size \in {0, 1, batch_size - 1}} \cup {MaxRows}

InitLoad ==
    /\ doc = Null
    /\ result = NoResult
    /\ pc = "insert_rows"
    /\ \E n \in LoadSizes : rows = [i \in 1..n |-> i]
    /\ conn = 1
    /\ conns = <<[db |-> DATABASE, closed |-> FALSE, autocommit |-> FALSE]>>
    /\ databases = {"master", DATABASE}
    /\ \E p \in 0..MaxPrior : committed = [exists |-> TRUE, rows |-> [i \in 1..p |-> i]]
    /\ work = committed
    /\ log = <<>>
    /\ exitcode = -1
    /\ idx = 0
    /\ total = -1

NextLoad == InsertDelete \/ InsertBatch \/ InsertReturn \/ VerifyData \/ Terminate

SpecLoad == InitLoad /\ [][NextLoad]_vars

(***************************************************************************)
(* create_database called again and again, each time on a connection to    *)
(* master that connect has just opened, as every run of main does.         *)
(***************************************************************************)
DbNames == {DATABASE, "db_a", "db_b"}

InitEnsure ==
    /\ doc = Null
    /\ result = NoResult
    /\ pc = "ensure"
    /\ rows = <<>>
    /\ conn = 0
    /\ conns = <<>>
    /\ \E S \in SUBSET DbNames : databases = {"master"} \cup S
    /\ committed = NoTable
    /\ work = NoTable
    /\ log = <<>>
    /\ exitcode = -1
    /\ idx = 0
    /\ total = -1

EnsureConnect ==
    /\ pc = "ensure"
    /\ IF conn = 0 THEN TRUE ELSE conns[conn].closed
    /\ Len(conns) < MaxCalls
    /\ connect("master", FALSE, "ensure")
    /\ UNCHANGED <<doc, result, rows, databases, committed, idx, total>>

EnsureDatabase ==
    /\ pc = "ensure"
    /\ conn # 0
    /\ ~conns[conn].closed
    /\ \E name \in DbNames : create_database(conn, name, FALSE, "ensure")
    /\ UNCHANGED <<doc, result, rows, conn, committed, work, exitcode, idx, total>>

NextEnsure == EnsureConnect \/ EnsureDatabase

SpecEnsure == InitEnsure /\ [][NextEnsure]_vars

(***************************************************************************)
(* What the data model says a document holds (spec.md section 3), written  *)
(* without the loops of extract_tags.                                      *)
(***************************************************************************)
IsMap(x) == x.t = "map"
IsSeq(x) == x.t = "seq"

\* the array under key k: a missing key is an empty array
Arr(d, k) ==
    IF IsMap(d) /\ HasKey(d, k) /\ IsSeq(Lookup(d, k)) THEN Lookup(d, k).items ELSE <<>>

\* key k is there but holds something that is not a sequence
BadArr(d, k) == IsMap(d) /\ HasKey(d, k) /\ ~IsSeq(Lookup(d, k))

\* key k is there but holds something that is not a mapping
BadMap(d, k) == IsMap(d) /\ HasKey(d, k) /\ ~IsMap(Lookup(d, k))

ProjectOf(D) == IF IsMap(D) /\ HasKey(D, K_PROJECT) THEN Lookup(D, K_PROJECT) ELSE Dict(<<>>)
ChannelsOf(D) == Arr(ProjectOf(D), K_CHANNELS)
DevicesOf(ch) == Arr(ch, K_DEVICES)
TagsOf(dev) == Arr(dev, K_TAGS)

AllMaps(s) == \A i \in 1..Len(s) : IsMap(s[i])

\* every level has the type the data model gives it
WellFormed(D) ==
    /\ IsMap(D) /\ ~BadMap(D, K_PROJECT) /\ ~BadArr(ProjectOf(D), K_CHANNELS)
    /\ AllMaps(ChannelsOf(D))
    /\ \A i \in 1..Len(ChannelsOf(D)) :
          LET ch == ChannelsOf(D)[i] IN
          /\ ~BadArr(ch, K_DEVICES) /\ AllMaps(DevicesOf(ch))
          /\ \A j \in 1..Len(DevicesOf(ch)) :
                LET dev == DevicesOf(ch)[j] IN
                ~BadArr(dev, K_TAGS) /\ AllMaps(TagsOf(dev))

RECURSIVE SeqSum(_)
SeqSum(s) == IF s = <<>> THEN 0 ELSE Head(s) + SeqSum(Tail(s))

ChanTagCounts(ch) == [j \in 1..Len(DevicesOf(ch)) |-> Len(TagsOf(DevicesOf(ch)[j]))]
ChanTotal(ch) == SeqSum(ChanTagCounts(ch))
TotalTags(D) == SeqSum([i \in 1..Len(ChannelsOf(D)) |-> ChanTotal(ChannelsOf(D)[i])])

\* rows that come before the rows of device j of channel i
Offset(D, i, j) ==
    SeqSum([a \in 1..(i - 1) |-> ChanTotal(ChannelsOf(D)[a])])
    + SeqSum(SubSeq(ChanTagCounts(ChannelsOf(D)[i]), 1, j - 1))

Extracted == result.exc # "pending"

\* P(ch, dev, tag, row) holds of every tag of doc and the row at its place
ForEachTag(P(_, _, _, _)) ==
    \A i \in 1..Len(ChannelsOf(doc)) :
       LET ch == ChannelsOf(doc)[i] IN
       \A j \in 1..Len(DevicesOf(ch)) :
          LET dev == DevicesOf(ch)[j] IN
          \A k \in 1..Len(TagsOf(dev)) :
             P(ch, dev, TagsOf(dev)[k], result.rows[Offset(doc, i, j) + k])

Absent(d, k, v, default) == ~HasKey(d, k) => v = default
Present(d, k, v) == HasKey(d, k) => v = Lookup(d, k)

\* the row names the channel and the device the tag is in
C1_Ancestry(ch, dev, tag, row) ==
    Present(ch, K_NAME, row[1]) /\ Present(dev, K_NAME, row[2]) /\ Present(dev, K_DEVID, row[3])

\* C1: extract_tags returns one row per tag of the document, in document
\* order, and the first three fields of each row are the name of the channel
\* and the name and id string of the device that hold the tag.
C1_RowPerTag ==
    /\ (Extracted /\ WellFormed(doc)) => result.exc = "none"
    /\ (Extracted /\ result.exc = "none") =>
          Len(result.rows) = TotalTags(doc) /\ ForEachTag(C1_Ancestry)

\* two rows that come from different channels
C1_Witness ==
    /\ result.exc = "none" /\ WellFormed(doc) /\ Len(result.rows) >= 2
    /\ result.rows[1][1] # result.rows[Len(result.rows)][1]

\* every absent key gives None
C7_AllNull(ch, dev, tag, row) ==
    /\ Absent(ch, K_NAME, row[1], Null) /\ Absent(dev, K_NAME, row[2], Null)
    /\ Absent(dev, K_DEVID, row[3], Null) /\ Absent(tag, K_NAME, row[4], Null)
    /\ Absent(tag, K_ADDR, row[5], Null) /\ Absent(tag, K_DTYPE, row[6], Null)
    /\ Absent(tag, K_RATE, row[7], Null)

\* C7 as claimed: every one of the seven fields whose key is absent is None
\* in the row, and an absent key raises nothing.
C7_Claimed ==
    /\ (Extracted /\ WellFormed(doc)) => result.exc = "none"
    /\ (Extracted /\ result.exc = "none") => ForEachTag(C7_AllNull)

\* an absent tag key gives None, an absent channel or device key gives ""
C7_NullOrEmpty(ch, dev, tag, row) ==
    /\ Absent(ch, K_NAME, row[1], EmptyStr) /\ Absent(dev, K_NAME, row[2], EmptyStr)
    /\ Absent(dev, K_DEVID, row[3], EmptyStr) /\ Absent(tag, K_NAME, row[4], Null)
    /\ Absent(tag, K_ADDR, row[5], Null) /\ Absent(tag, K_DTYPE, row[6], Null)
    /\ Absent(tag, K_RATE, row[7], Null)

\* C7 as the code has it: an absent tag key (name, address, data type, scan
\* rate) is None in the row, an absent channel name, device name or device
\* id string is the empty string, and an absent key raises nothing.
C7_AbsentKeys ==
    /\ (Extracted /\ WellFormed(doc)) => result.exc = "none"
    /\ (Extracted /\ result.exc = "none") => ForEachTag(C7_NullOrEmpty)

\* a row of a tag none of whose seven keys is in the document
C7_Witness ==
    /\ result.exc = "none" /\ WellFormed(doc) /\ Len(result.rows) >= 1
    /\ result.rows[1] = <<EmptyStr, EmptyStr, EmptyStr, Null, Null, Null, Null>>
    /\ ~HasKey(ChannelsOf(doc)[1], K_NAME)

\* the documents section 4.1 of spec.md says extraction fails on
ClaimedMalformed(D) ==
    \/ ~IsMap(D)
    \/ BadArr(ProjectOf(D), K_CHANNELS)
    \/ \E i \in 1..Len(ChannelsOf(D)) :
          LET ch == ChannelsOf(D)[i] IN
          \/ BadArr(ch, K_DEVICES)
          \/ \E j \in 1..Len(DevicesOf(ch)) : BadArr(DevicesOf(ch)[j], K_TAGS)

\* C8: extract_tags fails exactly when the root is not a mapping or a
\* channels, devices or tags value is present and is not a sequence.
C8_FailsIffMalformed ==
    Extracted => (result.exc # "none" <=> ClaimedMalformed(doc))

(***************************************************************************)
(* The loader and the run of main.                                         *)
(***************************************************************************)
LogHas(op) == \E i \in DOMAIN log : log[i].op = op

IsCommit(e) == e.op = "commit"

\* the rows each conn.commit() made durable, in the order of the commits
CommitSizes == LET cs == SelectSeq(log, IsCommit) IN [i \in 1..Len(cs) |-> cs[i].n]

Ceil(n) == (n + batch_size - 1) \div batch_size

\* batch sizes B, ..., B and a last batch of N - B * (ceil(N / B) - 1)
ExpectedSizes(n) ==
    [k \in 1..Ceil(n) |-> IF k < Ceil(n) THEN batch_size ELSE n - batch_size * (Ceil(n) - 1)]

\* C2: when insert_rows has completed and verify_data runs right after, the
\* total it reports is len(rows), whatever the table held before: the table
\* then holds exactly the rows passed, each once.
C2_TotalIsLenRows ==
    total # -1 => total = Len(rows) /\ committed.rows = rows /\ work = committed

\* more rows than a batch, loaded over a table that was not empty
C2_Witness ==
    /\ total = Len(rows) /\ total > batch_size
    /\ \E i \in DOMAIN log : log[i].op = "delete" /\ log[i].n > 0

\* C3: when the insert of batch k fails, exactly the (k-1)*B rows of the
\* batches 1..k-1 are committed in the table, and no row of batch k or later.
C3_EarlierBatchesPersist ==
    \A i \in DOMAIN log :
       log[i].op = "executemany_failed" =>
          /\ Len(committed.rows) = (log[i].n - 1) * batch_size
          /\ committed.rows = SubSeq(rows, 1, (log[i].n - 1) * batch_size)

\* batch 3 failed after some of its rows were inserted and not committed
C3_Witness ==
    /\ pc = "raised"
    /\ \E i \in DOMAIN log : log[i].op = "executemany_failed" /\ log[i].n = 3
    /\ Len(work.rows) > Len(committed.rows)
    /\ Len(committed.rows) = 2 * batch_size

\* C4 as claimed: a load that completes performs exactly ceil(N/B) commits.
C4_Claimed ==
    LogHas("insert_rows_done") => CommitSizes = ExpectedSizes(Len(rows))

\* C4 as the code has it: a load that completes performs ceil(N/B) + 1
\* commits: one of the DELETE, which inserts no row, and then one per batch,
\* of B, ..., B and a last batch of N - B*(ceil(N/B)-1) rows.
C4_CommitPerBatch ==
    LogHas("insert_rows_done") =>
       /\ CommitSizes = <<0>> \o ExpectedSizes(Len(rows))
       /\ Len(CommitSizes) = Ceil(Len(rows)) + 1

\* a load of three batches, the last one short
C4_Witness ==
    /\ LogHas("insert_rows_done")
    /\ Len(CommitSizes) = 4
    /\ CommitSizes[4] < batch_size /\ CommitSizes[4] > 1

\* C5: when extraction yields no row, main exits with status 0 and has
\* opened no connection and called none of create_database, create_table,
\* insert_rows.
C5_NoRowsNoDatabase ==
    (Extracted /\ result.exc = "none" /\ Len(result.rows) = 0) =>
       /\ conns = <<>> /\ log = <<>>
       /\ pc \in {"check_empty", "exited"}
       /\ pc = "exited" => exitcode = 0

\* a document with a channel and no tag, and the run over
C5_Witness ==
    /\ pc = "exited" /\ exitcode = 0
    /\ result.exc = "none" /\ Len(result.rows) = 0
    /\ Len(ChannelsOf(doc)) >= 1

\* C6: when the process ends, every connection it opened has been closed
\* by conn.close().
C6_AllClosedAtExit ==
    pc = "exited" => \A h \in DOMAIN conns : conns[h].closed

TableOps == {"create_table", "insert_rows", "verify_data"}

\* C9: the connection create_database is given and the connection the table
\* operations are given are different handles, the connection to master is
\* closed before the connection to the target database is opened, and no
\* table operation runs on the connection to master.
C9_MasterClosedBeforeTarget ==
    /\ \A i \in DOMAIN log : log[i].op \in TableOps => conns[log[i].h].db = DATABASE
    /\ \A i, j \in DOMAIN log :
          (log[i].op = "create_database" /\ log[j].op \in TableOps) => log[i].h # log[j].h
    /\ \A i \in DOMAIN log :
          (log[i].op = "connect" /\ log[i].name = DATABASE) =>
             \A m \in DOMAIN conns :
                conns[m].db = "master" =>
                   /\ m # log[i].h
                   /\ \E j \in 1..(i - 1) : log[j].op = "close" /\ log[j].h = m

\* a run that got to verify_data on its second connection
C9_Witness ==
    /\ LogHas("verify_data") /\ LogHas("create_database")
    /\ Len(conns) = 2 /\ conns[1].db = "master" /\ conns[2].db = DATABASE

SetKey(d, k, v) ==
    LET Other(e) == e[1] # k IN Dict(SelectSeq(d.kv, Other) \o << <<k, v>> >>)

HasTags(dev) == TagsOf(dev) # <<>>
HasDevices(ch) == DevicesOf(ch) # <<>>

\* ch without its devices that have no tag
PruneChannel(ch) == SetKey(ch, K_DEVICES, List(SelectSeq(DevicesOf(ch), HasTags)))

\* D without the devices that have no tag and the channels that are then
\* left with no device
Prune(D) ==
    LET chans == [i \in 1..Len(ChannelsOf(D)) |-> PruneChannel(ChannelsOf(D)[i])]
    IN SetKey(D, K_PROJECT,
              SetKey(ProjectOf(D), K_CHANNELS, List(SelectSeq(chans, HasDevices))))

\* C11: a channel, device or project whose devices, tags or channels array
\* is missing or empty contributes no row and raises nothing, and the rows
\* of the other branches are what they are without that branch.
C11_EmptyBranches ==
    (Extracted /\ WellFormed(doc)) =>
       /\ result.exc = "none"
       /\ result.rows = extract_tags(Prune(doc)).rows
       /\ Len(result.rows) = TotalTags(doc)
       /\ (\A i \in 1..Len(ChannelsOf(doc)) :
              \A j \in 1..Len(DevicesOf(ChannelsOf(doc)[i])) :
                 ~HasTags(DevicesOf(ChannelsOf(doc)[i])[j])) => result.rows = <<>>

\* the first channel has a device of two tags, the second has no device:
\* two rows, both of the first channel
C11_Witness ==
    /\ result.exc = "none" /\ WellFormed(doc)
    /\ Len(ChannelsOf(doc)) = 2 /\ ~HasDevices(ChannelsOf(doc)[2])
    /\ Len(result.rows) = 2
    /\ result.rows[1][1] = Str(<<"C", "1">>) /\ result.rows[2][1] = Str(<<"C", "1">>)

====
